---------------------------- MODULE Spec2Model ----------------------------
(***************************************************************************)
(* Model of deconf.py: the keyword-parameter resolver of Deconfigurable.   *)
(* One behaviour is one or more constructions of one Deconfigurable class   *)
(* with keyword arguments, stepped through __init__, _process_param and    *)
(* the wrapper that the @parameter decorator puts around each handler.     *)
(***************************************************************************)
EXTENDS Integers, Sequences, FiniteSets, TLC

VARIABLES
    decls,       \* the class: parameter name -> what @parameter recorded for it
    kwargs,      \* the keyword arguments of the construction
    order,       \* order of self._param_methods.items() in this construction
    idx,         \* position of __init__'s for loop in order (next to visit)
    param_vals,  \* self._param_vals: name -> what method(kwargs) returned
    attrs,       \* attributes set on self by setattr(self, param, ...)
    chain,       \* the chain list shared by one top-level _process_param call
    stack,       \* active _process_param frames, innermost last
    status,      \* "running", "ok", or the name of the exception raised
    errName,     \* the parameter name the raised exception's message carries
    calls,       \* name -> how many times the handler f(self, val) was invoked
    retval,      \* name -> what the handler returned at its last invocation
    rawval,      \* name -> the val the handler was given at its last invocation
    run,         \* number of the construction in progress
    prev         \* outcome of the previous construction, for comparison

vars == << decls, kwargs, order, idx, param_vals, attrs, chain, stack, status,
           errName, calls, retval, rawval, run, prev >>

-----------------------------------------------------------------------------
(* Bounds of the model *)

\* longest depends_on tuple in the enumerated declaration graphs
MaxDeps == 2

\* how many constructions of the same class with the same kwargs are compared
MaxRuns == 2

\* the interpreter's recursion limit, scaled down: the deepest stack of
\* _process_param frames before the interpreter raises RuntimeError
MaxDepth == 6

-----------------------------------------------------------------------------
(* Python values *)

IntV(n)  == [ty |-> "int", n |-> n]
BoolV(b) == [ty |-> "bool", n |-> IF b THEN 1 ELSE 0]
\* a str is kept by its length only
StrV(n)  == [ty |-> "str", n |-> n]
NoneV    == [ty |-> "NoneType", n |-> 0]

\* class Undefined: the sentinel for "no default given"
Undefined == [ty |-> "Undefined", n |-> 0]

\* ensure_type=None
NoType == "None"

\* Python truth value of v, as `retval or val` tests it
Truthy(v) ==
    CASE v.ty \in {"int", "bool", "str"} -> v.n # 0
      [] v.ty = "NoneType" -> FALSE
      [] OTHER -> TRUE

\* isinstance(v, t); bool is a subclass of int
IsInstance(v, t) == v.ty = t \/ (t = "int" /\ v.ty = "bool")

-----------------------------------------------------------------------------
(* Declarations: what parameter(param, depends_on, ensure_type, default)    *)
(* attaches to a handler, and the handler's body.                          *)

Decl(deps, ensure_type, default, body) ==
    [deps |-> deps, ensure_type |-> ensure_type, default |-> default, body |-> body]

\* self._param_methods.get(depname, None) is None
NoMethod(name) == name \notin DOMAIN decls

\* getattr(method, '__dependencies__', [])
DepsOf(name) == IF NoMethod(name) THEN << >> ELSE decls[name].deps

\* f(self, val): the handler bodies of the class docstring.
\*   "pass" : def handle_foo(self, value): pass
\*   "ret"  : def handle_foo(self, value): return value
\*   "vote" : if self.age < 18: value = False; return value   (age = first dependency)
Handler(name, val, self) ==
    CASE decls[name].body = "pass" -> NoneV
      [] decls[name].body = "ret"  -> val
      [] decls[name].body = "vote" ->
            IF self[decls[name].deps[1]].n < 18 THEN BoolV(FALSE) ELSE val

\* retval or val
StoredValue(rv, val) == IF Truthy(rv) THEN rv ELSE val

\* wrapper without the `default != Undefined` test: a missing parameter gets
\* whatever default holds
WrapperInput_NoRequiredCheck(name) ==
    IF name \in DOMAIN kwargs
    THEN IF decls[name].ensure_type # NoType
            /\ ~IsInstance(kwargs[name], decls[name].ensure_type)
         THEN [err |-> "ParameterTypeError", val |-> NoneV]
         ELSE [err |-> "none", val |-> kwargs[name]]
    ELSE [err |-> "none", val |-> decls[name].default]

\* wrapper without the isinstance test
WrapperInput_NoTypeCheck(name) ==
    IF name \in DOMAIN kwargs
    THEN [err |-> "none", val |-> kwargs[name]]
    ELSE IF decls[name].default # Undefined
         THEN [err |-> "none", val |-> decls[name].default]
         ELSE [err |-> "RequiredParameterError", val |-> NoneV]

\* wrapper applying the isinstance test to the default as well
WrapperInput_TypeCheckDefault(name) ==
    LET given == IF name \in DOMAIN kwargs THEN kwargs[name] ELSE decls[name].default
    IN IF given = Undefined
       THEN [err |-> "RequiredParameterError", val |-> NoneV]
       ELSE IF decls[name].ensure_type # NoType
               /\ ~IsInstance(given, decls[name].ensure_type)
            THEN [err |-> "ParameterTypeError", val |-> NoneV]
            ELSE [err |-> "none", val |-> given]

\* The checks of wrapper(self, kwargs) before f is called:
\* which exception, if any, and which val f receives.
WrapperInput(name) ==
    IF name \in DOMAIN kwargs
    THEN IF decls[name].ensure_type # NoType
            /\ ~IsInstance(kwargs[name], decls[name].ensure_type)
         THEN [err |-> "ParameterTypeError", val |-> NoneV]
         ELSE [err |-> "none", val |-> kwargs[name]]
    ELSE IF decls[name].default # Undefined
         THEN [err |-> "none", val |-> decls[name].default]
         ELSE [err |-> "RequiredParameterError", val |-> NoneV]

\* the first element of chain is left out of the comparison
InChain_SkipRoot(depname, ch) == \E i \in 2..Len(ch) : ch[i] = depname

\* only the caller is compared with depname
InChain_LastOnly(depname, ch) == Len(ch) > 0 /\ ch[Len(ch)] = depname

\* depname in chain
InChain(depname, ch) == \E i \in 1..Len(ch) : ch[i] = depname

\* depname not in kwargs, instead of _param_vals
NotProcessed_InKwargs(depname) == depname \notin DOMAIN kwargs

\* depname not in self._param_vals
NotProcessed(depname) == depname \notin DOMAIN param_vals

-----------------------------------------------------------------------------
(* The classes and keyword arguments the model is run on *)

Names == {"a", "b", "c"}

\* depends_on tuples over S: no name twice, at most MaxDeps long
DepSeqs(S) ==
    UNION { { s \in [1..k -> S] : \A i, j \in 1..k : i # j => s[i] # s[j] }
            : k \in 0..MaxDeps }

\* the possible orders of a dict with the keys S
Perms(S) ==
    { s \in [1..Cardinality(S) -> S] :
        \A i, j \in 1..Cardinality(S) : i # j => s[i] # s[j] }

Plain(deps) == Decl(deps, NoType, Undefined, "pass")

\* Every dependency graph on up to three declared parameters (a dependency may
\* name an undeclared parameter); untyped pass-through handlers, every declared
\* parameter supplied.
GraphConfigs ==
    { [decls |-> d, kwargs |-> [n \in DOMAIN d |-> IntV(25)]] :
        d \in UNION { [D -> { Plain(s) : s \in DepSeqs(Names) }]
                      : D \in {{"a"}, {"a", "b"}, {"a", "b", "c"}} } }

\* what one parameter may be declared with and supplied as
ProfileDecls ==
    { Decl(s, t, dflt, body) :
        s \in {<< >>} \cup { <<n>> : n \in Names },
        t \in {NoType, "int"},
        dflt \in {Undefined, NoneV},
        body \in {"pass", "ret"} }

ProfileArgs == {Undefined, IntV(25), StrV(6)}    \* Undefined: not supplied

\* One or two declared parameters in every combination of type constraint,
\* default, handler body and supplied value, with at most one dependency each.
ProfileConfigs ==
    { [decls |-> d,
       kwargs |-> [n \in { m \in DOMAIN k : k[m] # Undefined } |-> k[n]]] :
        <<d, k>> \in UNION { [D -> ProfileDecls] \X [D -> ProfileArgs]
                             : D \in {{"a"}, {"a", "b"}} } }

\* class Person of the docstring, reduced to age and registered_to_vote
PersonDecls ==
    [n \in {"age", "registered_to_vote"} |->
        IF n = "age" THEN Decl(<< >>, "int", Undefined, "pass")
                     ELSE Decl(<<"age">>, "bool", Undefined, "vote")]

PersonConfigs ==
    { [decls |-> PersonDecls,
       kwargs |-> [n \in { m \in DOMAIN k : k[m] # Undefined } |-> k[n]]] :
        k \in [age : {Undefined, IntV(12), IntV(25), StrV(6)},
               registered_to_vote : {Undefined, BoolV(TRUE), BoolV(FALSE)}] }

\* a -> b, a -> c, b -> d, c -> d
DiamondDecls ==
    [n \in {"a", "b", "c", "d"} |->
        CASE n = "a" -> Plain(<<"b", "c">>)
          [] n = "b" -> Plain(<<"d">>)
          [] n = "c" -> Plain(<<"d">>)
          [] n = "d" -> Plain(<< >>)]

DiamondConfigs ==
    { [decls |-> DiamondDecls, kwargs |-> [n \in {"a", "b", "c", "d"} |-> IntV(25)]] }

\* One parameter "a" with a default of every kind of value, typed or not,
\* supplied or not, alone or as the dependency of a parameter "b".
DefaultConfigs ==
    { [decls |-> [n \in D |->
                    IF n = "a" THEN Decl(<< >>, t, dflt, body)
                               ELSE Decl(<<"a">>, NoType, Undefined, "ret")],
       kwargs |-> [n \in (D \ {"a"}) \cup given |-> IntV(25)]] :
        D \in {{"a"}, {"a", "b"}},
        t \in {NoType, "int", "bool", "str"},
        dflt \in {NoneV, IntV(0), IntV(25), BoolV(FALSE), StrV(0), StrV(3)},
        body \in {"pass", "ret"},
        given \in {{}, {"a"}} }

Configs ==
    GraphConfigs \cup ProfileConfigs \cup PersonConfigs \cup DiamondConfigs
    \cup DefaultConfigs

-----------------------------------------------------------------------------
(* State of one construction *)

Empty == [n \in {} |-> NoneV]

\* f with f[name] = v
Put(f, name, v) == [x \in DOMAIN f \cup {name} |-> IF x = name THEN v ELSE f[x]]

NoOutcome == [status |-> "none", attrs |-> Empty]

\* what the caller of the constructor observes
Outcome == [status |-> status, attrs |-> IF status = "ok" THEN attrs ELSE Empty]

\* __init__ up to its for loop: the method dict, an empty _param_vals
Fresh(ord) ==
    /\ order = ord
    /\ idx = 1
    /\ param_vals = Empty
    /\ attrs = Empty
    /\ chain = << >>
    /\ stack = << >>
    /\ status = "running"
    /\ errName = ""
    /\ calls = [n \in DOMAIN decls |-> 0]
    /\ retval = Empty
    /\ rawval = Empty

InitOn(cfgs) ==
    \E cfg \in cfgs :
        /\ decls = cfg.decls
        /\ kwargs = cfg.kwargs
        /\ run = 1
        /\ prev = NoOutcome
        /\ \E ord \in Perms(DOMAIN cfg.decls) : Fresh(ord)

Init == InitOn(Configs)

Top == stack[Len(stack)]

\* the dependency the innermost frame's for loop is at
DepName == DepsOf(Top.param)[Top.i]

InLoop == status = "running" /\ stack # << >> /\ Top.i <= Len(DepsOf(Top.param))

Raise(exc, name) ==
    /\ status' = exc
    /\ errName' = name
    /\ UNCHANGED << decls, kwargs, order, idx, param_vals, attrs, chain, stack,
                    calls, retval, rawval, run, prev >>

\* the for loop of _process_param moves on to the next dependency
NextDep ==
    /\ stack' = [stack EXCEPT ![Len(stack)] = [@ EXCEPT !.i = @ + 1, !.waiting = FALSE]]
    /\ UNCHANGED << decls, kwargs, order, idx, param_vals, attrs, chain, status,
                    errName, calls, retval, rawval, run, prev >>

\* lines 157-160, then the next iteration
FailedDependencyCheck ==
    IF NotProcessed(DepName)
    THEN Raise("RequiredParameterError", DepName)
    ELSE NextDep

-----------------------------------------------------------------------------
(* Actions *)

\* __init__'s for loop calls _process_param(param, method, kwargs): chain=None
\* becomes a new list holding param
Start ==
    /\ status = "running" /\ stack = << >> /\ idx <= Len(order)
    /\ stack' = << [param |-> order[idx], i |-> 1, waiting |-> FALSE] >>
    /\ chain' = << order[idx] >>
    /\ idx' = idx + 1
    /\ UNCHANGED << decls, kwargs, order, param_vals, attrs, status, errName,
                    calls, retval, rawval, run, prev >>

\* the for loop of __init__ is exhausted: the constructor returns
Finish ==
    /\ status = "running" /\ stack = << >> /\ idx > Len(order)
    /\ status' = "ok"
    /\ UNCHANGED << decls, kwargs, order, idx, param_vals, attrs, chain, stack,
                    errName, calls, retval, rawval, run, prev >>

\* the exception names the parameter that closed the cycle
CycleContext_Closing(ch) == ch[Len(ch)]

\* line 150: ctx = (chain[0], )
CycleContext(ch) == ch[1]

\* lines 148-151: depname in chain
Cyclical ==
    /\ InLoop /\ ~Top.waiting
    /\ InChain(DepName, chain)
    /\ Raise("CyclicalDependencyError", CycleContext(chain))

\* lines 154-155: the recursive call, which appends depname to the shared chain
Recurse ==
    /\ InLoop /\ ~Top.waiting
    /\ ~InChain(DepName, chain)
    /\ NotProcessed(DepName)
    /\ IF Len(stack) >= MaxDepth
       THEN Raise("RuntimeError", "")
       ELSE /\ stack' = Append([stack EXCEPT ![Len(stack)].waiting = TRUE],
                               [param |-> DepName, i |-> 1, waiting |-> FALSE])
            /\ chain' = Append(chain, DepName)
            /\ UNCHANGED << decls, kwargs, order, idx, param_vals, attrs, status,
                            errName, calls, retval, rawval, run, prev >>

\* the dependency is in _param_vals already: no recursive call
DepReady ==
    /\ InLoop /\ ~Top.waiting
    /\ ~InChain(DepName, chain)
    /\ ~NotProcessed(DepName)
    /\ FailedDependencyCheck

\* the recursive call has returned
ReturnDep ==
    /\ InLoop /\ Top.waiting
    /\ FailedDependencyCheck

AtCall == status = "running" /\ stack # << >> /\ Top.i > Len(DepsOf(Top.param))

\* line 162 with method = None: None(kwargs)
CallNone ==
    /\ AtCall
    /\ NoMethod(Top.param)
    /\ Raise("TypeError", "")

\* line 162, the wrapper raises before the handler is called
WrapperError ==
    /\ AtCall
    /\ ~NoMethod(Top.param)
    /\ WrapperInput(Top.param).err # "none"
    /\ Raise(WrapperInput(Top.param).err, Top.param)

\* val = kwargs.pop(param): reading the argument removes it
KwargsAfterWrapper_Pop(p) == [n \in DOMAIN kwargs \ {p} |-> kwargs[n]]

\* lines 169-170: the wrapper only reads kwargs
KwargsAfterWrapper(p) == kwargs

\* line 162, the wrapper calls the handler and sets the attribute; its own
\* result, None, goes to _param_vals and _process_param returns
Resolve ==
    /\ AtCall
    /\ ~NoMethod(Top.param)
    /\ WrapperInput(Top.param).err = "none"
    /\ LET p   == Top.param
           val == WrapperInput(p).val
           rv  == Handler(p, val, attrs)
       IN /\ calls' = [calls EXCEPT ![p] = @ + 1]
          /\ rawval' = Put(rawval, p, val)
          /\ retval' = Put(retval, p, rv)
          /\ attrs' = Put(attrs, p, StoredValue(rv, val))
          /\ param_vals' = Put(param_vals, p, NoneV)
          /\ stack' = SubSeq(stack, 1, Len(stack) - 1)
          /\ kwargs' = KwargsAfterWrapper(p)
    /\ UNCHANGED << decls, order, idx, chain, status, errName, run, prev >>

\* the caller constructs the same class with the same kwargs once more
Reconstruct ==
    /\ status # "running" /\ run < MaxRuns
    /\ run' = run + 1
    /\ prev' = Outcome
    /\ \E ord \in Perms(DOMAIN decls) :
        /\ order' = ord
        /\ idx' = 1 /\ param_vals' = Empty /\ attrs' = Empty
        /\ chain' = << >> /\ stack' = << >> /\ status' = "running"
        /\ errName' = "" /\ calls' = [n \in DOMAIN decls |-> 0]
        /\ retval' = Empty /\ rawval' = Empty
    /\ UNCHANGED << decls, kwargs >>

Next ==
    \/ Start \/ Finish \/ Cyclical \/ Recurse \/ DepReady \/ ReturnDep
    \/ CallNone \/ WrapperError \/ Resolve

Spec == Init /\ [][Next]_vars

\* __init__ is synchronous, single-threaded code: a construction that can take
\* a step takes it
SpecLive == Init /\ [][Next]_vars /\ WF_vars(Next)

\* several constructions of the same class with the same keyword arguments
NextRe == Next \/ Reconstruct

SpecRe == Init /\ [][NextRe]_vars

-----------------------------------------------------------------------------
(* Vocabulary of the properties *)

Done == status # "running"

Declared == DOMAIN decls

\* the names in p's depends_on
Direct(p) == { DepsOf(p)[i] : i \in 1..Len(DepsOf(p)) }

AllNames == Declared \cup UNION { Direct(p) : p \in Declared }

RECURSIVE Closure(_, _)
Closure(S, k) ==
    IF k = 0 THEN S ELSE Closure(S \cup UNION { Direct(m) : m \in S }, k - 1)

\* everything p depends on, directly or through other parameters
TransDeps(p) == Closure(Direct(p), Cardinality(AllNames))

\* some declared parameter transitively depends on itself
HasCycle == \E p \in Declared : p \in TransDeps(p)

\* every dependency named is a declared parameter
AllDepsDeclared == AllNames = Declared

\* p is declared without default and not supplied
Missing(p) == p \notin DOMAIN kwargs /\ decls[p].default = Undefined

\* p is type-constrained and supplied
Constrained(p) == p \in DOMAIN kwargs /\ decls[p].ensure_type # NoType

\* construction ended while _process_param(p) was at line 162, calling p's method
EndedCalling(p) ==
    /\ Done /\ stack # << >>
    /\ Top.param = p /\ Top.i > Len(DepsOf(p))

-----------------------------------------------------------------------------
(* C1 *)

\* C1 (as claimed): during one construction no handler is invoked more than
\* once, and in a successful construction every declared parameter's handler
\* is invoked exactly once.
C1_TransformInvokedOnce ==
    /\ \A p \in Declared : calls[p] <= 1
    /\ status = "ok" => \A p \in Declared : calls[p] = 1

-----------------------------------------------------------------------------
(* C2 *)

\* C2 (as claimed): CyclicalDependencyError is raised only if some declared
\* parameter transitively depends on itself.
C2_CycleErrorOnlyIfCycle ==
    status = "CyclicalDependencyError" => HasCycle

-----------------------------------------------------------------------------
(* C3 *)

\* C3 (as claimed): the value a handler returns becomes the attribute, and the
\* raw supplied-or-default value is stored only when the handler returns
\* nothing.
C3_ReturnedValueIsStored ==
    \A p \in DOMAIN attrs :
        attrs[p] = IF retval[p] # NoneV THEN retval[p] ELSE rawval[p]

-----------------------------------------------------------------------------
(* C4 *)

\* C4 (as claimed): when resolution reaches a dependency that has no
\* declaration, construction fails with RequiredParameterError naming that
\* dependency.
C4_UndeclaredDependencyIsRequiredError ==
    \A d \in AllNames \ Declared :
        EndedCalling(d) => status = "RequiredParameterError" /\ errName = d

-----------------------------------------------------------------------------
(* C5 *)

\* x and y are declared and each is the other's first dependency
MutualFirst(x, y) ==
    /\ x # y /\ x \in Declared /\ y \in Declared
    /\ Len(decls[x].deps) >= 1 /\ decls[x].deps[1] = y
    /\ Len(decls[y].deps) >= 1 /\ decls[y].deps[1] = x

-----------------------------------------------------------------------------
(* C6 *)

\* C6: whenever a step invokes the handler of p, every name in p's depends_on
\* is a declared parameter whose handler has run, that is in _param_vals and
\* whose attribute is set.
C6_DependenciesResolvedBeforeTransform ==
    [][ \A p \in Declared :
            calls'[p] > calls[p]
            => \A d \in Direct(p) :
                  /\ d \in DOMAIN param_vals
                  /\ d \in DOMAIN attrs
                  /\ d \in Declared /\ calls[d] >= 1 ]_vars

C6_Witness ==
    \E p \in Declared : calls[p] >= 1 /\ Cardinality(Direct(p)) = 2

-----------------------------------------------------------------------------
(* C7 *)

\* C7 (as claimed, its success-or-failure part): two constructions of the
\* same class with the same kwargs, whatever the orders of their top-level
\* loops, both succeed with the same attribute values or both fail.
C7_OutcomeIndependentOfOrder ==
    (Done /\ prev # NoOutcome)
    => /\ (status = "ok") <=> (prev.status = "ok")
       /\ status = "ok" => attrs = prev.attrs

-----------------------------------------------------------------------------
(* C8 *)

\* C8 (as claimed): a construction ends by succeeding with every declared
\* parameter set as an attribute, or with one of the three errors of the
\* module.
C8_EndsResolvedOrWithDeclaredError ==
    /\ status \in {"running", "ok", "RequiredParameterError",
                   "CyclicalDependencyError", "ParameterTypeError"}
    /\ status = "ok" => Declared \subseteq DOMAIN attrs

-----------------------------------------------------------------------------
(* C9 *)

\* C9 (as claimed), on acyclic classes whose dependencies are all declared: a
\* declared parameter without default that is not supplied makes the
\* construction end with RequiredParameterError, its handler never invoked.
C9_MissingAlwaysRequiredError ==
    \A p \in Declared :
        (Missing(p) /\ AllDepsDeclared /\ ~HasCycle)
        => /\ calls[p] = 0
           /\ Done => status = "RequiredParameterError"

\* C9 (amended): such a parameter's handler is never invoked, the
\* construction never succeeds, and when the construction ends in the call of
\* the parameter's method (reached from the top-level loop or as a dependency)
\* the error is RequiredParameterError naming the parameter.
C9_MissingNeverResolved ==
    \A p \in Declared :
        Missing(p) => /\ calls[p] = 0
                      /\ status # "ok"
                      /\ EndedCalling(p) => /\ status = "RequiredParameterError"
                                            /\ errName = p

\* a missing parameter reached as a dependency
C9_Witness ==
    \E p \in Declared : Missing(p) /\ EndedCalling(p) /\ Len(stack) >= 2

-----------------------------------------------------------------------------
(* C10 *)

WrongType(p) == Constrained(p) /\ ~IsInstance(kwargs[p], decls[p].ensure_type)

RightType(p) == Constrained(p) /\ IsInstance(kwargs[p], decls[p].ensure_type)

\* C10 (as claimed), on acyclic classes whose dependencies are all declared:
\* a supplied value that fails the parameter's type constraint makes the
\* construction end with ParameterTypeError, the handler never invoked; a
\* value that satisfies it never raises ParameterTypeError for that parameter.
C10_WrongTypeAlwaysTypeError ==
    \A p \in Declared :
        /\ (WrongType(p) /\ AllDepsDeclared /\ ~HasCycle)
           => /\ calls[p] = 0
              /\ Done => status = "ParameterTypeError"
        /\ RightType(p) => ~(status = "ParameterTypeError" /\ errName = p)

\* C10 (amended): the handler of a parameter supplied with a value of the
\* wrong type is never invoked, the construction never succeeds, and when the
\* construction ends in the call of the parameter's method the error is
\* ParameterTypeError naming the parameter; a value that satisfies the
\* constraint never raises ParameterTypeError for that parameter.
C10_WrongTypeNeverResolved ==
    \A p \in Declared :
        /\ WrongType(p) => /\ calls[p] = 0
                           /\ status # "ok"
                           /\ EndedCalling(p) => /\ status = "ParameterTypeError"
                                                 /\ errName = p
        /\ RightType(p) => ~(status = "ParameterTypeError" /\ errName = p)

\* a wrongly typed parameter's method called after a rightly typed
\* parameter's handler ran
C10_Witness ==
    \E p, q \in Declared :
        /\ WrongType(p) /\ EndedCalling(p)
        /\ RightType(q) /\ calls[q] = 1

-----------------------------------------------------------------------------
(* C11 *)

\* p is declared with a default and not supplied
Defaulted(p) == p \notin DOMAIN kwargs /\ decls[p].default # Undefined

\* C11: for a parameter with a default that is not supplied, the call of its
\* method never raises (no required error, and no type error even when the
\* default fails the type constraint), and whenever its handler has been
\* invoked it was given the default as the raw value; the attribute then set
\* is the handler's result or the default.
C11_DefaultBypassesChecks ==
    \A p \in Declared :
        Defaulted(p)
        => /\ ~(Done /\ status # "ok" /\ errName = p /\ EndedCalling(p))
           /\ (AtCall /\ Top.param = p) => WrapperInput(p).err = "none"
           /\ calls[p] >= 1 => /\ rawval[p] = decls[p].default
                               /\ attrs[p] \in {retval[p], decls[p].default}

\* a None default that fails the type constraint int was passed to the handler
C11_Witness ==
    \E p \in Declared :
        /\ Defaulted(p) /\ decls[p].default = NoneV /\ decls[p].ensure_type = "int"
        /\ calls[p] = 1 /\ rawval[p] = NoneV /\ status = "ok"

-----------------------------------------------------------------------------
(* C12 *)

\* C12: every construction ends, with success or an exception, and never by
\* exhausting the interpreter's recursion limit.
C12_ConstructionTerminates == <>(Done /\ status # "RuntimeError")

\* a construction of a class with a dependency cycle and an undeclared
\* dependency has ended
C12_Witness == Done /\ HasCycle /\ ~AllDepsDeclared

-----------------------------------------------------------------------------
(* C13 *)

\* the parameters whose _process_param call is active, outermost first
ActivePath == [i \in 1..Len(stack) |-> stack[i].param]

\* C13 (as claimed): while a top-level resolution is in progress the chain
\* holds exactly the names on the active recursive path, in order; a name
\* whose resolution has completed is not in it.
C13_ChainIsActivePath ==
    (status = "running" /\ stack # << >>) => chain = ActivePath

-----------------------------------------------------------------------------
(* C14 *)

\* C14: CyclicalDependencyError names the first element of the chain, which
\* is the parameter the top-level loop is resolving.
C14_CycleErrorNamesRoot ==
    status = "CyclicalDependencyError"
    => /\ errName = chain[1]
       /\ errName = order[idx - 1]
       /\ errName = stack[1].param

\* the error names a parameter that is neither the dependency that closed the
\* cycle nor on any cycle
C14_Witness ==
    /\ status = "CyclicalDependencyError"
    /\ errName # DepName
    /\ errName \notin TransDeps(errName)
    /\ DepName \in TransDeps(DepName)

-----------------------------------------------------------------------------
(* C15 *)

\* the construction ended with an exception
Failed == Done /\ status # "ok"

\* the parameter whose _process_param call raised it
FailedParam == Top.param

\* C15: once the construction has failed nothing changes any more: no handler
\* is invoked, no attribute is set and the exception stays the one raised
\* first. Neither the parameter whose resolution failed nor any parameter that
\* transitively depends on it has had its handler invoked or its attribute
\* set, and a parameter's own required or type check is what ends the
\* construction only when all its dependencies have been resolved.
C15_FailureIsFatalAndFirst ==
    /\ [](Failed =>
            /\ \A p \in Declared :
                  (p = FailedParam \/ FailedParam \in TransDeps(p))
                  => calls[p] = 0 /\ p \notin DOMAIN attrs
            /\ \A p \in Declared :
                  EndedCalling(p)
                  => \A d \in Direct(p) : d \in DOMAIN param_vals /\ calls[d] >= 1)
    /\ [][Done => /\ status' = status /\ errName' = errName
                  /\ calls' = calls /\ attrs' = attrs
                  /\ param_vals' = param_vals]_vars

\* a dependency's type or required error was raised although the dependent
\* parameter's own check would raise a different error
C15_Witness ==
    /\ Failed /\ Len(stack) >= 2
    /\ FailedParam \in Declared /\ EndedCalling(FailedParam)
    /\ stack[1].param \in Declared
    /\ FailedParam \in Direct(stack[1].param)
    /\ WrapperInput(stack[1].param).err \notin {"none", status}

-----------------------------------------------------------------------------
(* C16 *)

\* C16: no step of any construction, successful or failed, changes the
\* keyword arguments or the declarations of the class.
C16_ArgumentsAndDeclarationsUnchanged ==
    [][kwargs' = kwargs /\ decls' = decls]_vars

\* a second construction with the same kwargs has ended after a handler read
\* a supplied argument
C16_Witness ==
    /\ run = 2 /\ Done
    /\ \E p \in DOMAIN kwargs \cap Declared : calls[p] >= 1

-----------------------------------------------------------------------------
(* C17 *)

\* C17: the chain never holds a name twice, so neither it nor the stack of
\* _process_param calls is longer than the number of distinct names that are
\* declared or named as a dependency.
C17_ChainHasNoDuplicates ==
    /\ \A i, j \in 1..Len(chain) : i # j => chain[i] # chain[j]
    /\ Len(chain) <= Cardinality(AllNames)
    /\ Len(stack) <= Len(chain)

\* the recursion is as deep as there are names
C17_Witness ==
    /\ Len(stack) = Cardinality(AllNames)
    /\ Len(stack) >= 3

=============================================================================
